---- MODULE Spec2Model ----
(***************************************************************************)
(* KensMCP: the HTTP/SSE transport (src/src/http_server.py) and the tool   *)
(* dispatcher (src/src/server.py).                                         *)
(*                                                                         *)
(* The specifications share the variables:                                   *)
(*   Spec      the session map of HTTPServerTransport: one _handle_sse     *)
(*             task per stream, any number of POST /message requests;      *)
(*   FairSpec  Spec with the fairness of the event loop;                   *)
(*   ToolSpec  POST /tools/{tool_name}: _handle_call_tool around call_tool.*)
(*   ConcSpec  two POST /tools/{tool_name} requests in flight at once,     *)
(*             each a task of the one event loop.                          *)
(***************************************************************************)
EXTENDS Integers, Sequences, FiniteSets, TLC

\* ------------------------------------------------------------------ bounds
MaxPushes == 2    \* POST /message bodies enqueued in one run
MaxPings  == 1    \* wait_for timeouts in one run

\* --------------------------------------------------------- session events
\* The tokens str(uuid.uuid4()) can return in one run.
IDs == {"s1", "s2"}

\* request.headers.get("X-Session-ID"): None when the header is absent,
\* "" when it is present and empty, otherwise the text of an id.
None        == "None"
EmptyHeader == ""
Headers     == IDs \cup {None, EmptyHeader}

\* Python truthiness of the header value in "if session_id and ...".
Truthy(h) == h \notin {None, EmptyHeader}

\* {"type": "session", "id": session_id}
SessionEvent(s) == [type |-> "session", id |-> s]
\* {"type": "ping"}
PingEvent == [type |-> "ping", id |-> ""]
\* A JSON body posted to /message.  A client is free to post a body that
\* looks like a keepalive.
Payloads == {[type |-> "msg", id |-> "e1"], [type |-> "msg", id |-> "e2"],
             PingEvent}
\* The body request.json() cannot parse.
Malformed == [type |-> "malformed", id |-> ""]
Bodies == Payloads \cup {Malformed}

VARIABLES
    sessions,   \* self.sessions: session id -> asyncio.Queue (as a sequence)
    issued,     \* ids uuid4 has returned so far
    pc,         \* where the _handle_sse task of each id stands
    conn,       \* the client connection of each stream
    stream,     \* what resp.send has written on each stream, in order
    pushed,     \* history: bodies _handle_message has put on each queue
    delivered,  \* history: queue items written on each stream
    early,      \* history: ids that got a put before their session event
    timeouts,   \* history: number of asyncio.TimeoutError raised so far
    msgResp,    \* the last response of POST /message
    toolReq,    \* history: the last request of POST /tools/{tool_name}
    toolResp,   \* the last response of POST /tools/{tool_name}
    notesFile,  \* NOTES_FILE: the persisted notes document
    tasks       \* the _handle_call_tool tasks that are in flight

sessVars == <<sessions, issued, pc, conn, stream, pushed, delivered, early,
              timeouts, msgResp>>
toolVars == <<toolReq, toolResp, notesFile, tasks>>
vars == <<sessions, issued, pc, conn, stream, pushed, delivered, early,
          timeouts, msgResp, toolReq, toolResp, notesFile, tasks>>

\* ------------------------------------------------------------- operators
RECURSIVE SumLen(_, _)
SumLen(f, S) ==
    IF S = {} THEN 0
    ELSE LET x == CHOOSE y \in S : TRUE
         IN  Len(f[x]) + SumLen(f, S \ {x})

\* del self.sessions[session_id]
DelSession(m, s) == [t \in DOMAIN m \ {s} |-> m[t]]

\* self.sessions[session_id] = asyncio.Queue()
NewSession(m, s) == [t \in DOMAIN m \cup {s} |-> IF t = s THEN <<>> ELSE m[t]]

\* A token generator that can return a token it returned before.
uuid4Any(used) == IDs

\* str(uuid.uuid4()): a random 122-bit token, modelled as a token that was
\* never returned before.
uuid4(used) == IDs \ used

\* A put that goes to the front of the queue.
MessagePutFront(m, h, data) ==
    IF Truthy(h) /\ h \in DOMAIN m
    THEN [m EXCEPT ![h] = <<data>> \o @]
    ELSE m

\* A put that, without a known session, goes to every open session.
MessagePutBroadcast(m, h, data) ==
    IF Truthy(h) /\ h \in DOMAIN m
    THEN [m EXCEPT ![h] = Append(@, data)]
    ELSE [t \in DOMAIN m |-> Append(m[t], data)]

\* A put that creates the queue of a session id it does not know.
MessagePutCreate(m, h, data) ==
    IF Truthy(h)
    THEN [t \in DOMAIN m \cup {h} |->
            IF t = h
            THEN (IF h \in DOMAIN m THEN Append(m[h], data) ELSE <<data>>)
            ELSE m[t]]
    ELSE m

\* Lines 296-297: "if session_id and session_id in self.sessions:
\*                    await self.sessions[session_id].put(data)"
MessagePut(m, h, data) ==
    IF Truthy(h) /\ h \in DOMAIN m
    THEN [m EXCEPT ![h] = Append(@, data)]
    ELSE m

\* web.json_response({"status": "received"})
Received == [status |-> 200, body |-> "received"]
\* web.json_response({"error": str(e)}, status=400)
BadRequest == [status |-> 400, body |-> "error"]
NoResponse == [status |-> 0, body |-> "none"]
NoToolRequest == [name |-> "", body |-> [kind |-> "none", items |-> <<>>],
                  io |-> "ok"]
NoToolResponse == [status |-> 0, success |-> FALSE, keys |-> {},
                   result |-> <<>>, error |-> <<>>]

\* ------------------------------------------------------ Python values
\* A JSON value as Python sees it: a str, an int, or a list.
PyStr(x) == [type |-> "str", s |-> x, n |-> 0]
PyInt(k) == [type |-> "int", s |-> "", n |-> k]
PyList == [type |-> "list", s |-> "", n |-> 0]
IsStr(v) == v.type = "str"
IsInt(v) == v.type = "int"

\* str(v) inside an f-string.
Show(v) == IF IsStr(v) THEN v.s ELSE IF IsInt(v) THEN "<int>" ELSE "<list>"

\* The JSON body of a request: an object (items: key -> value), or a value
\* that is not an object, or text request.json() cannot parse.
Dict(f)   == [kind |-> "dict", items |-> f]
EmptyDict == Dict(<<>>)
NotADict  == [kind |-> "list", items |-> <<>>]
BadBody   == [kind |-> "malformed", items |-> <<>>]

\* args.get(key, default); an AttributeError when args is no dict is
\* handled by the caller through IsDict.
IsDict(args) == args.kind = "dict"
Has(args, key) == key \in DOMAIN args.items
Get(args, key, default) == IF Has(args, key) THEN args.items[key] ELSE default

\* --------------------------------------------------- the notes document
\* NOTES_FILE is absent, holds a whole JSON document (title -> content),
\* or holds the truncated remains of a write that failed.
NoFile        == [state |-> "absent", doc |-> <<>>]
File(d)       == [state |-> "whole", doc |-> d]
PartialFile   == [state |-> "partial", doc |-> <<>>]

\* load_notes, lines 34-42: {} when the file is absent or does not parse.
load_notes(file) == IF file.state = "whole" THEN file.doc ELSE <<>>

\* What save_notes meets on the disk: the write goes through, open() fails
\* before the file is touched, or json.dump fails after open() truncated it.
IOs == {"ok", "open_fails", "write_fails"}

\* save_notes, lines 45-49: [raised, file].
save_notes(file, d, io) ==
    CASE io = "ok"          -> [raised |-> FALSE, file |-> File(d)]
      [] io = "open_fails"  -> [raised |-> TRUE,  file |-> file]
      [] io = "write_fails" -> [raised |-> TRUE,  file |-> PartialFile]

\* notes[title] = {...} and del notes[title]
DictSet(d, k, v) == [x \in DOMAIN d \cup {k} |-> IF x = k THEN v ELSE d[x]]
DictDel(d, k) == [x \in DOMAIN d \ {k} |-> d[x]]

\* ------------------------------------------------------ library functions
\* str.strip() on the sample strings.
Strip(x) == CASE x = " a " -> "a"
              [] x = "  "  -> ""
              [] OTHER     -> x

\* eval(expr, {"__builtins__": {}}, safe_dict) succeeds on these samples.
EvalOk == {"2 + 2"}
\* json.loads succeeds on these samples.
JsonOk == {"{\"a\":1}"}
\* base64.b64decode(...).decode() succeeds on these samples.
B64Ok == {"SGVsbG8="}

\* ------------------------------------------------------------- handlers
\* A handler ends by returning one TextContent (its text as the pieces of
\* the f-string) or by raising; it leaves the notes document in `file`.
\* The emoji that open the texts are written as words in brackets:
\* [x] is U+274C, the cross mark every error text starts with.
Return(text, file) == [raised |-> FALSE, text |-> text, file |-> file]
Raise(msg, file)   == [raised |-> TRUE,  text |-> <<msg>>, file |-> file]

\* Lines 297-331.
handle_calculate(args, file, io) ==
    IF ~IsDict(args) THEN Raise("AttributeError", file)
    ELSE LET expression == Get(args, "expression", PyStr(""))
         IN  IF IsStr(expression) /\ expression.s \in EvalOk
             THEN Return(<<"[calc] ", expression.s, " = ", "<result>">>, file)
             ELSE Return(<<"[x] Invalid expression: ", "<exception>">>, file)

TextOperations == {"uppercase", "lowercase", "titlecase", "reverse",
                   "word_count", "char_count", "slugify"}

\* Lines 334-354.
handle_text_transform(args, file, io) ==
    IF ~IsDict(args) THEN Raise("AttributeError", file)
    ELSE LET text      == Get(args, "text", PyStr(""))
             operation == Get(args, "operation", PyStr(""))
         IN  IF ~IsStr(text) THEN Raise("AttributeError", file)
             ELSE IF operation = PyList THEN Raise("TypeError", file)
             ELSE IF IsStr(operation) /\ operation.s \in TextOperations
             THEN Return(<<"[memo] Result: ", operation.s, text.s>>, file)
             ELSE Return(<<"[x] Unknown operation: ", Show(operation)>>, file)

\* Lines 357-386.
handle_system_info(args, file, io) ==
    IF ~IsDict(args) THEN Raise("AttributeError", file)
    ELSE LET info_type == Get(args, "info_type", PyStr("all"))
         IN  Return(<<"[computer] System Information:", Show(info_type)>>, file)

\* A note as stored: {"content": ..., "created_at": now, "updated_at": now};
\* the two timestamps are left out.
\* Lines 389-405.
handle_note_create(args, file, io) ==
    IF ~IsDict(args) THEN Raise("AttributeError", file)
    ELSE LET rawTitle == Get(args, "title", PyStr(""))
             content  == Get(args, "content", PyStr(""))
         IN  IF ~IsStr(rawTitle) THEN Raise("AttributeError", file)
             ELSE LET title == Strip(rawTitle.s)
                      saved == save_notes(file,
                                   DictSet(load_notes(file), title, content), io)
                  IN  IF title = ""
                      THEN Return(<<"[x] Note title is required">>, file)
                      ELSE IF saved.raised THEN Raise("OSError", saved.file)
                      ELSE Return(<<"[check] Note '", title,
                                    "' saved successfully!">>, saved.file)

\* Lines 408-423: the arguments are not looked at; a content that is an int
\* cannot be sliced.
handle_note_list(args, file, io) ==
    LET notes == load_notes(file)
    IN  IF DOMAIN notes = {}
        THEN Return(<<"[mailbox] No notes found. Create one with note_create!">>,
                    file)
        ELSE IF \E k \in DOMAIN notes : IsInt(notes[k])
        THEN Raise("TypeError", file)
        ELSE Return(<<"[notebook] **Your Notes:**", "<lines>">>, file)

\* Lines 426-435.
handle_note_read(args, file, io) ==
    IF ~IsDict(args) THEN Raise("AttributeError", file)
    ELSE LET rawTitle == Get(args, "title", PyStr(""))
         IN  IF ~IsStr(rawTitle) THEN Raise("AttributeError", file)
             ELSE LET title == Strip(rawTitle.s)
                      notes == load_notes(file)
                  IN  IF title \notin DOMAIN notes
                      THEN Return(<<"[x] Note '", title, "' not found">>, file)
                      ELSE Return(<<"[book] **", title, "**",
                                    Show(notes[title]), "_Created: _">>, file)

\* Lines 438-449.
handle_note_delete(args, file, io) ==
    IF ~IsDict(args) THEN Raise("AttributeError", file)
    ELSE LET rawTitle == Get(args, "title", PyStr(""))
         IN  IF ~IsStr(rawTitle) THEN Raise("AttributeError", file)
             ELSE LET title == Strip(rawTitle.s)
                      notes == load_notes(file)
                      saved == save_notes(file, DictDel(notes, title), io)
                  IN  IF title \notin DOMAIN notes
                      THEN Return(<<"[x] Note '", title, "' not found">>, file)
                      ELSE IF saved.raised THEN Raise("OSError", saved.file)
                      ELSE Return(<<"[bin] Note '", title,
                                    "' deleted successfully!">>, saved.file)

HashAlgorithms == {"md5", "sha1", "sha256", "sha512"}

\* Lines 452-470.
handle_generate_hash(args, file, io) ==
    IF ~IsDict(args) THEN Raise("AttributeError", file)
    ELSE LET text      == Get(args, "text", PyStr(""))
             algorithm == Get(args, "algorithm", PyStr("sha256"))
         IN  IF algorithm = PyList THEN Raise("TypeError", file)
             ELSE IF ~(IsStr(algorithm) /\ algorithm.s \in HashAlgorithms)
             THEN Return(<<"[x] Unknown algorithm: ", Show(algorithm)>>, file)
             ELSE IF ~IsStr(text) THEN Raise("AttributeError", file)
             ELSE Return(<<"[lock] ", algorithm.s, ": ", "<digest>", text.s>>,
                         file)

\* min(count, 10)
MaxUuids == 10
Min(a, b) == IF a < b THEN a ELSE b
\* [str(uuid.uuid4()) for _ in range(count)]
Uuids(count) == [i \in 1..count |-> "<uuid>"]

\* Lines 473-484.
handle_generate_uuid(args, file, io) ==
    IF ~IsDict(args) THEN Raise("AttributeError", file)
    ELSE LET given == Get(args, "count", PyInt(1))
         IN  IF ~IsInt(given) THEN Raise("TypeError", file)
             ELSE LET count == Min(given.n, MaxUuids)
                  IN  IF count = 1
                      THEN Return(<<"[id] UUID: ">> \o Uuids(count), file)
                      ELSE Return(<<"[id] Generated ", ToString(count),
                                    " UUIDs:">> \o Uuids(count), file)

\* Lines 487-504: only json.JSONDecodeError is caught.
handle_json_format(args, file, io) ==
    IF ~IsDict(args) THEN Raise("AttributeError", file)
    ELSE LET json_string == Get(args, "json_string", PyStr(""))
             operation   == Get(args, "operation", PyStr("format"))
         IN  IF ~IsStr(json_string) THEN Raise("TypeError", file)
             ELSE IF json_string.s \notin JsonOk
             THEN Return(<<"[x] Invalid JSON: ", "<exception>">>, file)
             ELSE IF operation = PyStr("validate")
             THEN Return(<<"[check] Valid JSON!">>, file)
             ELSE IF operation = PyStr("minify")
             THEN Return(<<"[package] Minified:", json_string.s>>, file)
             ELSE Return(<<"[clipboard] Formatted:", json_string.s>>, file)

\* Lines 507-522: args.get is outside the try, the conversions inside it.
handle_base64_convert(args, file, io) ==
    IF ~IsDict(args) THEN Raise("AttributeError", file)
    ELSE LET text      == Get(args, "text", PyStr(""))
             operation == Get(args, "operation", PyStr("encode"))
         IN  IF operation = PyStr("encode")
             THEN IF IsStr(text)
                  THEN Return(<<"[abc] Encoded:", "b64encode", text.s>>, file)
                  ELSE Return(<<"[x] Error: ", "<exception>">>, file)
             ELSE IF IsStr(text) /\ text.s \in B64Ok
                  THEN Return(<<"[abc] Decoded:", "b64decode", text.s>>, file)
                  ELSE Return(<<"[x] Error: ", "<exception>">>, file)

\* ------------------------------------------------------------ dispatch
\* list_tools, lines 56-257: the names, in order.
list_tools == <<"calculate", "text_transform", "system_info", "note_create",
                "note_list", "note_read", "note_delete", "generate_hash",
                "generate_uuid", "json_format", "base64_convert">>
Registered == {list_tools[i] : i \in 1..Len(list_tools)}

TextContent(text) == [type |-> "text", text |-> text]

\* The if/elif chain of lines 265-286.
Handler(name, args, file, io) ==
    CASE name = "calculate"      -> handle_calculate(args, file, io)
      [] name = "text_transform" -> handle_text_transform(args, file, io)
      [] name = "system_info"    -> handle_system_info(args, file, io)
      [] name = "note_create"    -> handle_note_create(args, file, io)
      [] name = "note_list"      -> handle_note_list(args, file, io)
      [] name = "note_read"      -> handle_note_read(args, file, io)
      [] name = "note_delete"    -> handle_note_delete(args, file, io)
      [] name = "generate_hash"  -> handle_generate_hash(args, file, io)
      [] name = "generate_uuid"  -> handle_generate_uuid(args, file, io)
      [] name = "json_format"    -> handle_json_format(args, file, io)
      [] name = "base64_convert" -> handle_base64_convert(args, file, io)

\* An if/elif chain that has no branch for the last tool of the list.
DispatchNamesShort ==
    {"calculate", "text_transform", "system_info", "note_create",
     "note_list", "note_read", "note_delete", "generate_hash",
     "generate_uuid", "json_format"}

\* The names the if/elif chain of lines 265-286 compares `name` with; any
\* other name falls to the else of line 287.
DispatchNames ==
    {"calculate", "text_transform", "system_info", "note_create",
     "note_list", "note_read", "note_delete", "generate_hash",
     "generate_uuid", "json_format", "base64_convert"}

\* A dispatcher without the except clause: what a handler raises leaves
\* call_tool.
call_toolRaises(name, args, file, io) ==
    IF name \in DispatchNames
    THEN LET h == Handler(name, args, file, io)
         IN  IF h.raised
             THEN [raised |-> TRUE, error |-> h.text, file |-> h.file,
                   content |-> <<>>]
             ELSE [raised |-> FALSE, error |-> <<>>, file |-> h.file,
                   content |-> <<TextContent(h.text)>>]
    ELSE [raised |-> FALSE, error |-> <<>>, file |-> file,
          content |-> <<TextContent(<<"[x] Unknown tool: ", name>>)>>]

\* call_tool, lines 260-290: [raised, error, content, file].  Whatever the
\* handler raises is turned into a returned text at line 290; an unknown
\* name is a returned text too (line 288); `error` is str(e) of an exception
\* that leaves call_tool.
call_tool(name, args, file, io) ==
    IF name \in DispatchNames
    THEN LET h == Handler(name, args, file, io)
         IN  IF h.raised
             THEN [raised |-> FALSE, error |-> <<>>, file |-> h.file,
                   content |-> <<TextContent(<<"[x] Error executing ", name,
                                               ": ">> \o h.text)>>]
             ELSE [raised |-> FALSE, error |-> <<>>, file |-> h.file,
                   content |-> <<TextContent(h.text)>>]
    ELSE [raised |-> FALSE, error |-> <<>>, file |-> file,
          content |-> <<TextContent(<<"[x] Unknown tool: ", name>>)>>]

\* ------------------------------- POST /tools/{tool_name}: _handle_call_tool
\* Lines 321-324: a body that does not parse is taken as {}.
ParseBody(body) == IF body = BadBody THEN EmptyDict ELSE body

\* Lines 326-336: the response envelope.  A returned list is answered
\* {success: true, result: [...]} with status 200, an exception
\* {success: false, error: str(e)} with status 400.
Envelope(r) ==
    IF r.raised
    THEN [status |-> 400, success |-> FALSE, keys |-> {"success", "error"},
          result |-> <<>>, error |-> r.error]
    ELSE [status |-> 200, success |-> TRUE, keys |-> {"success", "result"},
          result |-> r.content, error |-> <<>>]

\* ---------------------------------------------------------- tool requests
ToolNames == Registered \cup {"nonexistent_tool"}

\* The argument names of each input schema.
SchemaKeys(name) ==
    CASE name = "calculate"      -> {"expression"}
      [] name = "text_transform" -> {"text", "operation"}
      [] name = "system_info"    -> {"info_type"}
      [] name = "note_create"    -> {"title", "content"}
      [] name = "note_read"      -> {"title"}
      [] name = "note_delete"    -> {"title"}
      [] name = "generate_hash"  -> {"text", "algorithm"}
      [] name = "generate_uuid"  -> {"count"}
      [] name = "json_format"    -> {"json_string", "operation"}
      [] name = "base64_convert" -> {"text", "operation"}
      [] OTHER                   -> {}

\* The values a client sends under each argument name.
SampleValues(key) ==
    CASE key = "expression"  -> {PyStr("2 + 2"), PyStr("2 +"), PyInt(5)}
      [] key = "text"        -> {PyStr("Hello"), PyStr("SGVsbG8="), PyInt(5)}
      [] key = "operation"   -> {PyStr("uppercase"), PyStr("encode"),
                                 PyStr("decode"), PyStr("validate"),
                                 PyStr("bogus"), PyList}
      [] key = "info_type"   -> {PyStr("time"), PyStr("bogus")}
      [] key = "title"       -> {PyStr("a"), PyStr(" a "), PyStr("b"),
                                 PyStr("  "), PyInt(5)}
      [] key = "content"     -> {PyStr("x"), PyInt(5)}
      [] key = "algorithm"   -> {PyStr("md5"), PyStr("bogus"), PyList}
      [] key = "count"       -> {PyInt(-1), PyInt(0), PyInt(1), PyInt(3),
                                 PyInt(10), PyInt(11), PyStr("3")}
      [] key = "json_string" -> {PyStr("{\"a\":1}"), PyStr("{bad"), PyInt(5)}

AllValues == UNION {SampleValues(k) :
                 k \in {"expression", "text", "operation", "info_type",
                        "title", "content", "algorithm", "count",
                        "json_string"}}

\* The JSON objects over a subset of the keys, each key with its values.
DictsOver(keys) ==
    UNION {{Dict(f) : f \in {g \in [D -> AllValues] :
                               \A k \in D : g[k] \in SampleValues(k)}} :
             D \in SUBSET keys}

ToolBodies(name) == DictsOver(SchemaKeys(name)) \cup {NotADict, BadBody}

HandleCallTool(name, body, io) ==
    LET r == call_tool(name, ParseBody(body), notesFile, io)
    IN  /\ toolReq' = [name |-> name, body |-> body, io |-> io]
        /\ toolResp' = Envelope(r)
        /\ notesFile' = r.file
        /\ UNCHANGED <<sessVars, tasks>>

ToolNext ==
    \E name \in ToolNames, io \in IOs :
        \E body \in ToolBodies(name) : HandleCallTool(name, body, io)

\* ------------------------------------- concurrent POST /tools/{tool_name}
\* aiohttp runs each request in a task of its own on the one event loop.
\* A task gives up the loop only at an await that suspends: in
\* _handle_call_tool that is request.json() (line 322); call_tool and the
\* handlers it awaits (lines 260-290, 389-449) contain no await that
\* suspends, and load_notes and save_notes are blocking calls.
Tasks == {"t1", "t2"}

IdleTask == [pc |-> "idle", req |-> NoToolRequest, resp |-> NoToolResponse,
             raced |-> FALSE]

\* The calls that write the notes document.
NoteMutators == {"note_create", "note_delete"}

\* Their schema-valid bodies over two titles.
ConcBodies(name) ==
    {b \in DictsOver(SchemaKeys(name)) :
        /\ SchemaKeys(name) = DOMAIN b.items
        /\ b.items["title"] \in {PyStr("a"), PyStr("b")}
        /\ "content" \in DOMAIN b.items => b.items["content"] = PyStr("x")}

\* Line 317-322: the request is routed to a new task, which waits for the
\* body.
TaskAccept(k, name, body, io) ==
    /\ tasks[k].pc = "idle"
    /\ tasks' = [tasks EXCEPT ![k] =
                    [pc |-> "reading", resp |-> NoToolResponse, raced |-> FALSE,
                     req |-> [name |-> name, body |-> body, io |-> io]]]
    /\ UNCHANGED <<sessVars, toolReq, toolResp, notesFile>>

\* A run on the document as it was before any write.
TaskRunStale(k) ==
    /\ tasks[k].pc = "reading"
    /\ LET q == tasks[k].req
           r == call_tool(q.name, ParseBody(q.body), NoFile, q.io)
       IN  /\ notesFile' = r.file
           /\ tasks' = [tasks EXCEPT ![k].pc = "done", ![k].resp = Envelope(r),
                           ![k].raced = \E j \in Tasks \ {k} :
                                            tasks[j].pc = "reading"]
    /\ UNCHANGED <<sessVars, toolReq, toolResp>>

\* Lines 322-331: the body is there; call_tool loads, changes and saves the
\* document and the response is built, all without giving up the loop.
\* `raced` is history: another task was in flight when this one ran.
TaskRun(k) ==
    /\ tasks[k].pc = "reading"
    /\ LET q == tasks[k].req
           r == call_tool(q.name, ParseBody(q.body), notesFile, q.io)
       IN  /\ notesFile' = r.file
           /\ tasks' = [tasks EXCEPT ![k].pc = "done", ![k].resp = Envelope(r),
                           ![k].raced = \E j \in Tasks \ {k} :
                                            tasks[j].pc = "reading"]
    /\ UNCHANGED <<sessVars, toolReq, toolResp>>

\* The response is out and the task ends.
TaskEnd(k) ==
    /\ tasks[k].pc = "done"
    /\ tasks' = [tasks EXCEPT ![k] = IdleTask]
    /\ UNCHANGED <<sessVars, toolReq, toolResp, notesFile>>

ConcNext ==
    \/ \E k \in Tasks, name \in NoteMutators, io \in IOs :
          \E body \in ConcBodies(name) : TaskAccept(k, name, body, io)
    \/ \E k \in Tasks : TaskRun(k)
    \/ \E k \in Tasks : TaskEnd(k)

\* ------------------------------------------------------------------ Init
\* HTTPServerTransport.__init__: self.sessions = {}
Init ==
    /\ sessions = <<>>
    /\ issued = {}
    /\ pc = [s \in IDs |-> "idle"]
    /\ conn = [s \in IDs |-> "none"]
    /\ stream = [s \in IDs |-> <<>>]
    /\ pushed = [s \in IDs |-> <<>>]
    /\ delivered = [s \in IDs |-> <<>>]
    /\ early = {}
    /\ timeouts = 0
    /\ msgResp = NoResponse
    /\ toolReq = NoToolRequest
    /\ toolResp = NoToolResponse
    /\ notesFile = NoFile
    /\ tasks = [k \in Tasks |-> IdleTask]

\* ------------------------------------------------- GET /sse: _handle_sse
\* Lines 264-265: a fresh id is bound to a new queue before the first await.
SseConnect(s) ==
    /\ s \in uuid4(issued)
    /\ sessions' = NewSession(sessions, s)
    /\ issued' = issued \cup {s}
    /\ pc' = [pc EXCEPT ![s] = "hello"]
    /\ conn' = [conn EXCEPT ![s] = "open"]
    /\ UNCHANGED <<stream, pushed, delivered, early, timeouts, msgResp,
                   toolVars>>

\* Lines 269-271: the stream is prepared and the session event is sent.
SseSendSession(s) ==
    /\ pc[s] = "hello"
    /\ conn[s] = "open"
    /\ stream' = [stream EXCEPT ![s] = Append(@, SessionEvent(s))]
    /\ pc' = [pc EXCEPT ![s] = "pop"]
    /\ UNCHANGED <<sessions, issued, conn, pushed, delivered, early,
                   timeouts, msgResp, toolVars>>

\* Lines 269-271 raise (the peer is gone, or the task is cancelled) before
\* the try of line 273 is entered: the finally of line 284 does not run.
SseOpenFail(s) ==
    /\ pc[s] = "hello"
    /\ conn[s] = "gone"
    /\ pc' = [pc EXCEPT ![s] = "failed"]
    /\ UNCHANGED <<sessions, issued, conn, stream, pushed, delivered, early,
                   timeouts, msgResp, toolVars>>

\* A loop that starts taking items before the session event is out.
SseDeliverEarly(s) ==
    /\ pc[s] \in {"hello", "pop"}
    /\ s \in DOMAIN sessions
    /\ sessions[s] # <<>>
    /\ conn[s] = "open"
    /\ stream' = [stream EXCEPT ![s] = Append(@, Head(sessions[s]))]
    /\ delivered' = [delivered EXCEPT ![s] = Append(@, Head(sessions[s]))]
    /\ sessions' = [sessions EXCEPT ![s] = Tail(@)]
    /\ UNCHANGED <<issued, pc, conn, pushed, early, timeouts, msgResp,
                   toolVars>>

\* Lines 276-280: wait_for returns the head of the queue and it is sent.
SseDeliver(s) ==
    /\ pc[s] = "pop"
    /\ s \in DOMAIN sessions
    /\ sessions[s] # <<>>
    /\ conn[s] = "open"
    /\ stream' = [stream EXCEPT ![s] = Append(@, Head(sessions[s]))]
    /\ delivered' = [delivered EXCEPT ![s] = Append(@, Head(sessions[s]))]
    /\ sessions' = [sessions EXCEPT ![s] = Tail(@)]
    /\ UNCHANGED <<issued, pc, conn, pushed, early, timeouts, msgResp,
                   toolVars>>

\* Lines 276-280, 284-285: the item is taken, resp.send raises on the lost
\* connection, and the finally removes the session.
SseDeliverFail(s) ==
    /\ pc[s] = "pop"
    /\ s \in DOMAIN sessions
    /\ sessions[s] # <<>>
    /\ conn[s] = "gone"
    /\ sessions' = DelSession(sessions, s)
    /\ pc' = [pc EXCEPT ![s] = "done"]
    /\ UNCHANGED <<issued, conn, stream, pushed, delivered, early, timeouts,
                   msgResp, toolVars>>

\* A timeout that is not caught: it leaves the loop through the finally.
SseTimeoutCloses(s) ==
    /\ pc[s] = "pop"
    /\ s \in DOMAIN sessions
    /\ sessions[s] = <<>>
    /\ timeouts < MaxPings
    /\ timeouts' = timeouts + 1
    /\ sessions' = DelSession(sessions, s)
    /\ pc' = [pc EXCEPT ![s] = "done"]
    /\ UNCHANGED <<issued, conn, stream, pushed, delivered, early, msgResp,
                   toolVars>>

\* Lines 276-281: thirty seconds pass on an empty queue; wait_for raises
\* asyncio.TimeoutError, which line 281 catches.
SseTimeout(s) ==
    /\ pc[s] = "pop"
    /\ s \in DOMAIN sessions
    /\ sessions[s] = <<>>
    /\ timeouts < MaxPings
    /\ timeouts' = timeouts + 1
    /\ pc' = [pc EXCEPT ![s] = "ping"]
    /\ UNCHANGED <<sessions, issued, conn, stream, pushed, delivered, early,
                   msgResp, toolVars>>

\* Line 283: the keepalive is sent and the loop waits again.
SsePing(s) ==
    /\ pc[s] = "ping"
    /\ conn[s] = "open"
    /\ stream' = [stream EXCEPT ![s] = Append(@, PingEvent)]
    /\ pc' = [pc EXCEPT ![s] = "pop"]
    /\ UNCHANGED <<sessions, issued, conn, pushed, delivered, early,
                   timeouts, msgResp, toolVars>>

\* Lines 283-285: the keepalive cannot be sent; the finally removes the
\* session.
SsePingFail(s) ==
    /\ pc[s] = "ping"
    /\ conn[s] = "gone"
    /\ sessions' = DelSession(sessions, s)
    /\ pc' = [pc EXCEPT ![s] = "done"]
    /\ UNCHANGED <<issued, conn, stream, pushed, delivered, early, timeouts,
                   msgResp, toolVars>>

\* Lines 273-285: the server cancels the handler task of a lost connection
\* (aiohttp does so only when handler cancellation is enabled); the
\* CancelledError leaves the await through the finally.
SseCancel(s) ==
    /\ pc[s] \in {"pop", "ping"}
    /\ conn[s] = "gone"
    /\ sessions' = DelSession(sessions, s)
    /\ pc' = [pc EXCEPT ![s] = "done"]
    /\ UNCHANGED <<issued, conn, stream, pushed, delivered, early, timeouts,
                   msgResp, toolVars>>

\* The client of a stream goes away.
ClientDisconnect(s) ==
    /\ conn[s] = "open"
    /\ pc[s] \in {"hello", "pop", "ping"}
    /\ conn' = [conn EXCEPT ![s] = "gone"]
    /\ UNCHANGED <<sessions, issued, pc, stream, pushed, delivered, early,
                   timeouts, msgResp, toolVars>>

\* ------------------------------------------- POST /message: _handle_message
HandleMessage(h, body) ==
    /\ IF body = Malformed
       THEN \* line 293 raises, line 300 answers 400
            /\ msgResp' = BadRequest
            /\ UNCHANGED <<sessions, pushed, early>>
       ELSE LET after == MessagePut(sessions, h, body)
            IN  /\ msgResp' = Received
                /\ sessions' = after
                /\ IF after # sessions
                   THEN /\ SumLen(pushed, IDs) < MaxPushes
                        /\ pushed' = [s \in IDs |->
                                        IF s = h THEN Append(pushed[s], body)
                                        ELSE pushed[s]]
                        /\ early' = IF h \in IDs /\ pc[h] = "hello"
                                    THEN early \cup {h} ELSE early
                   ELSE UNCHANGED <<pushed, early>>
    /\ UNCHANGED <<issued, pc, conn, stream, delivered, timeouts, toolVars>>

Next ==
    \/ \E s \in IDs : SseConnect(s)
    \/ \E s \in IDs : SseSendSession(s)
    \/ \E s \in IDs : SseOpenFail(s)
    \/ \E s \in IDs : SseDeliver(s)
    \/ \E s \in IDs : SseDeliverFail(s)
    \/ \E s \in IDs : SseTimeout(s)
    \/ \E s \in IDs : SsePing(s)
    \/ \E s \in IDs : SsePingFail(s)
    \/ \E s \in IDs : SseCancel(s)
    \/ \E s \in IDs : ClientDisconnect(s)
    \/ \E h \in Headers, body \in Bodies : HandleMessage(h, body)

Spec == Init /\ [][Next]_vars

\* The event loop runs every task that is ready: a step of _handle_sse that
\* stays possible is taken.  Nothing obliges a client to connect, post or
\* disconnect, the 30 s timer competes with the arrival of an item, and the
\* cancellation of a handler depends on the server's configuration: these
\* steps get no fairness.
Fairness ==
    \A s \in IDs :
        /\ WF_vars(SseSendSession(s))
        /\ WF_vars(SseOpenFail(s))
        /\ WF_vars(SseDeliver(s))
        /\ WF_vars(SseDeliverFail(s))
        /\ WF_vars(SsePing(s))
        /\ WF_vars(SsePingFail(s))

FairSpec == Spec /\ Fairness

ToolSpec == Init /\ [][ToolNext]_vars

ConcSpec == Init /\ [][ConcNext]_vars

\* --------------------------------------------------------- tool properties
\* The result of a call as its caller gets it: Ok with the content items,
\* or Err with a message.
IsOk(resp)  == resp.success /\ "result" \in resp.keys
IsErr(resp) == ~resp.success /\ "error" \in resp.keys

\* The message has `piece` directly followed by the tool name.
Names(msg, piece, name) ==
    \E i \in 1..(Len(msg) - 1) : msg[i] = piece /\ msg[i + 1] = name

\* The handler ran into a fault: it raised, or it returned the text of one
\* of its own except clauses (lines 331, 504, 522).
HandlerFault(name, args, file, io) ==
    /\ name \in Registered
    /\ LET h == Handler(name, args, file, io)
       IN  \/ h.raised
           \/ h.text[1] \in {"[x] Invalid expression: ", "[x] Invalid JSON: ",
                             "[x] Error: "}

\* The call did not succeed: the text it produced is an error report.
CallFailed(name, args, file, io) ==
    call_tool(name, args, file, io).content[1].text[1] \in
        {"[x] Unknown tool: ", "[x] Error executing ",
         "[x] Invalid expression: ", "[x] Invalid JSON: ", "[x] Error: ",
         "[x] Unknown operation: ", "[x] Unknown algorithm: ",
         "[x] Note title is required", "[x] Note '"}

\* C1: a call of a tool name that is not registered gives the Err variant,
\* with a message that has "unknown tool: " followed by the name, and not
\* the Ok variant.
C1_UnknownToolIsErr ==
    toolReq.name \in ToolNames \ Registered =>
        /\ IsErr(toolResp) /\ ~IsOk(toolResp)
        /\ Names(toolResp.error, "unknown tool: ", toolReq.name)

\* C2: every call returns, and a call whose handler ran into a fault gives
\* the Err variant with a message that starts with the tool name.
C2_HandlerFaultIsErrWithToolName ==
    [][\A name \in ToolNames, io \in IOs :
         \A body \in ToolBodies(name) :
           (/\ HandleCallTool(name, body, io)
            /\ HandlerFault(name, ParseBody(body), notesFile, io))
              => /\ IsErr(toolResp')
                 /\ Len(toolResp'.error) >= 1
                 /\ toolResp'.error[1] = name]_vars

\* C3: the response has exactly one of result and error; a call that failed
\* is answered success=false with an error and status 400, and success=true
\* with a result is given only to a call that succeeded.
C3_FailureIsReportedAs400 ==
    [][\A name \in ToolNames, io \in IOs :
         \A body \in ToolBodies(name) :
           HandleCallTool(name, body, io)
              => /\ IsOk(toolResp') # IsErr(toolResp')
                 /\ CallFailed(name, ParseBody(body), notesFile, io)
                      => (IsErr(toolResp') /\ toolResp'.status = 400)
                 /\ IsOk(toolResp')
                      => ~CallFailed(name, ParseBody(body), notesFile, io)]_vars

\* ------------------------------------------------------ session properties
Range(q) == {q[i] : i \in 1..Len(q)}
IsPrefix(p, q) == Len(p) <= Len(q) /\ p = SubSeq(q, 1, Len(p))
Open(s) == s \in DOMAIN sessions
Closed(s) == s \in issued /\ s \notin DOMAIN sessions

\* C4: the events delivered on the stream of a session are a prefix, in push
\* order, of the events pushed to that session; while the session is open
\* the rest of what was pushed is exactly its queue.
C4_DeliveredIsPrefixOfPushed ==
    \A s \in IDs :
        /\ IsPrefix(delivered[s], pushed[s])
        /\ Open(s) => pushed[s] = delivered[s] \o sessions[s]
C4_Witness ==
    \E s \in IDs :
        /\ Len(delivered[s]) >= 2
        /\ delivered[s][1] # delivered[s][2]

\* C5: a POST /message with a well-formed body whose session id is absent,
\* empty, unknown or closed is answered "received" and changes neither the
\* session map nor any queue.
C5_DeadSessionPushIsNoop ==
    [][\A h \in Headers, b \in Payloads :
          (HandleMessage(h, b) /\ ~Open(h))
              => (msgResp' = Received /\ sessions' = sessions)]_vars
C5_Witness ==
    /\ msgResp = Received
    /\ \A s \in IDs : pushed[s] = <<>>
    /\ \E s \in IDs : Closed(s)
    /\ \E s \in IDs : Open(s)

\* C6: once the stream of a session has ended, a consumer parked on the
\* empty queue leaves the wait only through the close, never through the
\* timeout.
C6_CloseUnblocksPendingPop ==
    [][\A s \in IDs :
          (/\ pc[s] = "pop" /\ conn[s] = "gone"
           /\ Open(s) /\ sessions[s] = <<>>
           /\ pc'[s] # "pop")
              => pc'[s] = "done"]_vars

\* C7: a closed session id is never in the session map again and nothing is
\* enqueued for it.
C7_ClosedStaysClosed ==
    [][\A s \in IDs :
          Closed(s) => (s \notin DOMAIN sessions' /\ pushed'[s] = pushed[s])]_vars
C7_Witness ==
    \E s \in IDs : Closed(s) /\ pushed[s] # <<>> /\ msgResp = Received

\* C8: opening a stream registers an id that was not in the session map,
\* with an empty queue, and leaves every other entry of the map as it was.
C8_CreateIsFreshAndEmpty ==
    [][\A s \in IDs :
          SseConnect(s)
              => /\ s \notin DOMAIN sessions
                 /\ s \in DOMAIN sessions' /\ sessions'[s] = <<>>
                 /\ \A t \in DOMAIN sessions :
                        t \in DOMAIN sessions' /\ sessions'[t] = sessions[t]]_vars
C8_Witness ==
    \E s, t \in IDs :
        /\ s # t /\ Open(s) /\ Open(t)
        /\ pc[t] = "hello" /\ sessions[t] = <<>>
        /\ sessions[s] # <<>>

\* C9: a timeout of the wait on an empty queue leaves the session map, the
\* queues and the histories as they are and takes the consumer to the
\* keepalive; on a live stream the keepalive is one ping, after which the
\* consumer waits again.
C9_TimeoutIsKeepalive ==
    [][\A s \in IDs :
          /\ (pc[s] = "pop" /\ pc'[s] # "pop" /\ timeouts' # timeouts)
                => /\ pc'[s] = "ping"
                   /\ sessions' = sessions /\ stream' = stream
                   /\ pushed' = pushed /\ delivered' = delivered
          /\ (pc[s] = "ping" /\ pc'[s] # "ping" /\ conn[s] = "open")
                => /\ pc'[s] = "pop"
                   /\ stream'[s] = Append(stream[s], PingEvent)
                   /\ sessions' = sessions]_vars
C9_Witness ==
    \E s \in IDs :
        /\ stream[s] = <<SessionEvent(s), PingEvent, [type |-> "msg", id |-> "e1"]>>
        /\ delivered[s] = <<[type |-> "msg", id |-> "e1"]>>
        /\ timeouts >= 1

\* C10: the first event of a stream is the session event of the id the
\* stream is registered under; every later event is a ping or a payload
\* that was pushed to that id.
C10_SessionEventFirst ==
    \A s \in IDs :
        stream[s] # <<>> =>
            /\ s \in issued
            /\ stream[s][1] = SessionEvent(s)
            /\ \A i \in 2..Len(stream[s]) :
                   stream[s][i] = PingEvent \/ stream[s][i] \in Range(pushed[s])
C10_Witness ==
    \E s \in early :
        /\ Len(stream[s]) >= 2
        /\ stream[s][1] = SessionEvent(s)
        /\ stream[s][2] = pushed[s][1]

\* ------------------------------------------------------ the input schemas
\* The "required" list of each input schema (lines 72, 93, 110, 130, 141,
\* 157, 173, 194, 212, 233, 254).
RequiredKeys(name) ==
    CASE name = "calculate"      -> {"expression"}
      [] name = "text_transform" -> {"text", "operation"}
      [] name = "system_info"    -> {"info_type"}
      [] name = "note_create"    -> {"title", "content"}
      [] name = "note_list"      -> {}
      [] name = "note_read"      -> {"title"}
      [] name = "note_delete"    -> {"title"}
      [] name = "generate_hash"  -> {"text", "algorithm"}
      [] name = "generate_uuid"  -> {}
      [] name = "json_format"    -> {"json_string", "operation"}
      [] name = "base64_convert" -> {"text", "operation"}
      [] OTHER                   -> {}

\* The "enum" lists of lines 106, 229 and 250 (lines 89 and 190 are
\* TextOperations and HashAlgorithms).
InfoTypes      == {"time", "platform", "env", "cwd", "all"}
JsonOperations == {"format", "minify", "validate"}
B64Operations  == {"encode", "decode"}

\* "minimum": 1 and "maximum": 10 of the count property, lines 208-209.
SchemaMinCount == 1
SchemaMaxCount == 10

\* The value v is one the schema of the tool allows under the key.
SchemaValue(name, key, v) ==
    CASE key = "count"     -> IsInt(v) /\ v.n >= SchemaMinCount
                                       /\ v.n <= SchemaMaxCount
      [] key = "info_type" -> IsStr(v) /\ v.s \in InfoTypes
      [] key = "algorithm" -> IsStr(v) /\ v.s \in HashAlgorithms
      [] key = "operation" ->
            /\ IsStr(v)
            /\ v.s \in (CASE name = "text_transform" -> TextOperations
                          [] name = "json_format"    -> JsonOperations
                          [] OTHER                   -> B64Operations)
      [] OTHER             -> IsStr(v)

\* The arguments satisfy the input schema of the tool: an object that has
\* every required property, each property with a value of its type.
SchemaValid(name, args) ==
    /\ IsDict(args)
    /\ RequiredKeys(name) \subseteq DOMAIN args.items
    /\ \A k \in DOMAIN args.items : SchemaValue(name, k, args.items[k])

\* The arguments are an object that lacks a required property.
MissesRequired(name, args) ==
    IsDict(args) /\ \E k \in RequiredKeys(name) : ~Has(args, k)

\* C11: a call of a registered tool whose arguments omit a required field
\* is reported as an error and leaves the notes document as it was.
C11_MissingRequiredIsError ==
    [][\A name \in Registered, io \in IOs :
         \A body \in ToolBodies(name) :
           (/\ HandleCallTool(name, body, io)
            /\ MissesRequired(name, ParseBody(body)))
              => /\ \/ IsErr(toolResp')
                    \/ CallFailed(name, ParseBody(body), notesFile, io)
                 /\ notesFile' = notesFile]_vars

\* POST /tools/{tool_name} with a body that is no JSON: a 4xx answer that
\* carries no handler output, and the notes document is not touched.
MalformedToolBodyRejected ==
    \A name \in ToolNames, io \in IOs :
        HandleCallTool(name, BadBody, io)
            => /\ toolResp'.status \in 400..499
               /\ toolResp'.result = <<>>
               /\ notesFile' = notesFile

\* POST /message with a body that is no JSON: a 4xx answer, nothing put on
\* any queue.
MalformedMessageRejected ==
    \A h \in Headers :
        HandleMessage(h, Malformed)
            => /\ msgResp'.status \in 400..499
               /\ sessions' = sessions /\ pushed' = pushed

\* C12: a request whose body is no JSON is answered 4xx and reaches neither
\* a tool handler nor a session queue.
C12_MalformedBodyNeverReachesCore ==
    [][MalformedToolBodyRejected /\ MalformedMessageRejected]_vars

\* The step is a call of POST /tools/{tool_name}: the request it answered
\* is the one toolReq holds after it.
ToolCall == HandleCallTool(toolReq'.name, toolReq'.body, toolReq'.io)

\* The answer is the unknown-tool report of line 288.
UnknownToolReport(resp) ==
    /\ resp.result # <<>>
    /\ resp.result[1].text[1] = "[x] Unknown tool: "

\* C13: a name of list_tools is dispatched to the handler of that name and
\* is not answered with the unknown-tool report; a name that is not listed
\* reaches no handler; no name is listed twice.
C13_ListedIffDispatched ==
    [][ToolCall
         => LET name == toolReq'.name
                h == Handler(name, ParseBody(toolReq'.body), notesFile,
                             toolReq'.io)
                text == toolResp'.result[1].text
            IN  /\ Cardinality(Registered) = Len(list_tools)
                /\ IF name \in Registered
                   THEN /\ ~UnknownToolReport(toolResp')
                        /\ notesFile' = h.file
                        /\ \/ ~h.raised /\ text = h.text
                           \/ h.raised /\ SubSeq(text, 4, Len(text)) = h.text
                   ELSE /\ UnknownToolReport(toolResp')
                        /\ notesFile' = notesFile]_vars
C13_Witness ==
    /\ toolReq.name = list_tools[Len(list_tools)]
    /\ toolReq.body = Dict([k \in {"text"} |-> PyStr("Hello")])
    /\ toolResp.result = <<TextContent(<<"[abc] Encoded:", "b64encode", "Hello">>)>>

NumUuids(resp) ==
    IF resp.result = <<>> THEN 0
    ELSE LET text == resp.result[1].text
         IN  Cardinality({i \in 1..Len(text) : text[i] = "<uuid>"})

\* C20: generate_uuid with no count or an integer count answers with at
\* least 1 and at most 10 UUIDs: 1 when count is left out, count of them
\* when count is between 1 and 10.
C20_UuidCountBetween1And10 ==
    (/\ toolReq.name = "generate_uuid"
     /\ IsDict(ParseBody(toolReq.body))
     /\ IsInt(Get(ParseBody(toolReq.body), "count", PyInt(1))))
        => LET args == ParseBody(toolReq.body)
               n == NumUuids(toolResp)
           IN  /\ n >= SchemaMinCount /\ n <= SchemaMaxCount
               /\ ~Has(args, "count") => n = 1
               /\ (/\ Has(args, "count")
                   /\ args.items["count"].n >= SchemaMinCount
                   /\ args.items["count"].n <= SchemaMaxCount)
                     => n = args.items["count"].n

\* ---------------------------------------------------- the notes document
\* What note_list, note_read and the notes resource (line 552) see of the
\* persisted document.
Observed(file) == load_notes(file)

\* C15: a call whose save_notes fails after it began to write leaves a
\* document that later calls observe as the whole old one or the whole new
\* one, not a partial or emptied one.
C15_FailedWriteLeavesWholeDocument ==
    [][(ToolCall /\ toolReq'.io = "write_fails")
          => \/ Observed(notesFile') = Observed(notesFile)
             \/ notesFile'.state = "whole"]_vars

\* The first piece of the answer text.
Opening(resp) == resp.result[1].text[1]

\* The title a note call is about: args["title"].strip().
TitleOf(args) == Strip(Get(args, "title", PyStr("")).s)

\* The document last-writer-wins asks for after a call that found d: a
\* note_create that reported success binds its title to its content, a
\* note_delete that reported success removes its title, and nothing else
\* changes.
LastWriterWins(name, args, resp, d) ==
    IF name = "note_create" /\ Opening(resp) = "[check] Note '"
    THEN DictSet(d, TitleOf(args), Get(args, "content", PyStr("")))
    ELSE IF name = "note_delete" /\ Opening(resp) = "[bin] Note '"
    THEN DictDel(d, TitleOf(args))
    ELSE d

\* C16: the document maps each title to the content of its last
\* note_create unless a note_delete followed: a call changes the document
\* only at the title it wrote, and note_read answers with the content the
\* document holds for the title, or not-found when it holds none.
C16_LastWriterWins ==
    [][ToolCall
         => LET name == toolReq'.name
                args == ParseBody(toolReq'.body)
                d    == Observed(notesFile)
            IN  /\ Observed(notesFile') = LastWriterWins(name, args, toolResp', d)
                /\ (/\ name = "note_read" /\ IsDict(args)
                    /\ IsStr(Get(args, "title", PyStr(""))))
                      => IF TitleOf(args) \in DOMAIN d
                         THEN toolResp'.result[1].text[4] = Show(d[TitleOf(args)])
                         ELSE Opening(toolResp') = "[x] Note '"]_vars

\* C16 for the calls whose save_notes does not fail part-way.
LastWriterWinsUnlessTornWrite ==
    [][(ToolCall /\ toolReq'.io # "write_fails")
         => Observed(notesFile') =
              LastWriterWins(toolReq'.name, ParseBody(toolReq'.body),
                             toolResp', Observed(notesFile))]_vars

\* ------------------------------------------------- concurrency properties
\* The call of the task reported that it wrote the document.
Wrote(task) ==
    /\ task.resp.result # <<>>
    /\ Opening(task.resp) \in {"[check] Note '", "[bin] Note '"}

\* C17: whatever the order in which the tasks of two note-writing calls
\* run, a call that wrote changes the document only at its own title,
\* starting from the document as the last write left it: the writes of two
\* calls on different titles are both in the final document.
C17_ConcurrentWritesBothKept ==
    [][\A k \in Tasks :
          (tasks[k].pc = "reading" /\ tasks'[k].pc = "done" /\ Wrote(tasks'[k]))
              => Observed(notesFile') =
                   LastWriterWins(tasks[k].req.name,
                                  ParseBody(tasks[k].req.body),
                                  tasks'[k].resp, Observed(notesFile))]_vars
C17_Witness ==
    /\ tasks["t1"].pc = "done" /\ Wrote(tasks["t1"]) /\ tasks["t1"].raced
    /\ tasks["t2"].pc = "done" /\ Wrote(tasks["t2"])
    /\ tasks["t1"].req.name = "note_delete"
    /\ TitleOf(tasks["t1"].req.body) = "a"
    /\ tasks["t2"].req.name = "note_create"
    /\ TitleOf(tasks["t2"].req.body) = "b"
    /\ DOMAIN Observed(notesFile) = {"b"}

\* ------------------------------------------------- session life and progress
\* The _handle_sse task of the stream has ended.
Ended(s) == pc[s] \in {"done", "failed"}

\* C18: once the handler of a stream has ended, whatever ended it, its
\* session id is not in the session map.
C18_EndedStreamIsRemoved ==
    \A s \in IDs : Ended(s) => ~Open(s)

\* A consumer that waits on its empty queue leaves every other session
\* free to take a push and to send the head of its queue.
WaitingDoesNotBlock ==
    \A s, t \in IDs :
        (/\ s # t /\ pc[s] = "pop" /\ Open(s) /\ sessions[s] = <<>> /\ Open(t))
            => /\ SumLen(pushed, IDs) < MaxPushes
                    => \A b \in Payloads : ENABLED HandleMessage(t, b)
               /\ (pc[t] = "pop" /\ sessions[t] # <<>> /\ conn[t] = "open")
                    => ENABLED SseDeliver(t)

\* The n-th event pushed to s is sent on its stream, or s is closed.
EventuallySent(s, n) ==
    (Open(s) /\ Len(pushed[s]) >= n) ~> (Len(delivered[s]) >= n \/ ~Open(s))

\* C19: every event pushed to an open session is in the end sent on its
\* stream unless the session is closed first, and a consumer waiting on an
\* empty queue blocks no other session.
C19_PushedIsEventuallySent ==
    /\ []WaitingDoesNotBlock
    /\ \A s \in IDs : \A n \in 1..MaxPushes : EventuallySent(s, n)

\* C19 for the sessions whose handler got past the session event.
PushedIsSentUnlessOpeningFailed ==
    \A s \in IDs : \A n \in 1..MaxPushes :
        (Open(s) /\ Len(pushed[s]) >= n)
            ~> (Len(delivered[s]) >= n \/ ~Open(s) \/ pc[s] = "failed")

====
